---- MODULE Spec2Model ----
(***************************************************************************)
(* Model of the timetable front-end scripts app.js and teachers.js: the    *)
(* status toast, the single-card and batch exports (html2canvas + jsPDF),  *)
(* the fit-to-page placement and the teacher search filter.                *)
(***************************************************************************)
EXTENDS Integers, Sequences, FiniteSets, TLC

VARIABLES
    hasHtml2Canvas, \* typeof window.html2canvas !== "undefined"
    hasJsPdf,       \* window.jspdf && window.jspdf.jsPDF
    statusEl,       \* the #status-message element: [present, text, type, visible, shownAt, timeout]
    timers,         \* pending setTimeout callbacks: set of [due, act, el]
    now,            \* clock, in units of TimeUnit ms
    kind,           \* which cards the document holds: "class" or "teacher"
    cards,          \* the card elements in DOM order: Seq([name, wrapper])
    boxShadow,      \* indices of cards whose wrapper carries the highlight ring
    calls,          \* one record per click on an export button
    docs,           \* the jsPDF objects, one per call
    query,          \* value of the #teacher-search input
    haystack,       \* data-teacher-search attribute of each card
    display,        \* style.display of each card ("" or "none")
    pageW, pageH, canvasW, canvasH, \* inputs of the placement computation
    placedS, placedB                \* its result in the single and in the batch routine

vars == <<hasHtml2Canvas, hasJsPdf, statusEl, timers, now, kind, cards, boxShadow,
          calls, docs, query, haystack, display,
          pageW, pageH, canvasW, canvasH, placedS, placedB>>

\* ------------------------------------------------------------------------
\* Bounds
MaxCards == 3   \* cards in the document
MaxCalls == 2   \* clicks on export buttons in one behaviour
MaxDim   == 4   \* page and canvas dimensions tried by the placement check
MaxQuery == 2   \* length of the search text
MaxTime  == 32  \* clock range, in TimeUnit steps

\* ------------------------------------------------------------------------
\* Exact rational arithmetic: <<n, d>> with d > 0 stands for n/d
Rat(n)     == <<n, 1>>
RLe(a, b)  == a[1] * b[2] <= b[1] * a[2]
REq(a, b)  == a[1] * b[2] = b[1] * a[2]
RAdd(a, b) == <<a[1] * b[2] + b[1] * a[2], a[2] * b[2]>>
RSub(a, b) == <<a[1] * b[2] - b[1] * a[2], a[2] * b[2]>>
RMul(a, b) == <<a[1] * b[1], a[2] * b[2]>>
RHalf(a)   == <<a[1], 2 * a[2]>>
RMin(a, b) == IF RLe(a, b) THEN a ELSE b

\* A placement that scales to the page width only (ignores the height).
PlacementFitWidth(W, H, w, h) ==
    LET ratio     == <<W, w>>
        imgWidth  == RMul(Rat(w), ratio)
        imgHeight == RMul(Rat(h), ratio)
        x         == RHalf(RSub(Rat(W), imgWidth))
        y         == RHalf(RSub(Rat(H), imgHeight))
    IN  [ratio |-> ratio, x |-> x, y |-> y, w |-> imgWidth, h |-> imgHeight]

\* The ratio and the centred placement of a w x h canvas on a W x H page,
\* as exportElementAs / exportElement compute it.
PlacementSingle(W, H, w, h) ==
    LET ratio     == RMin(<<W, w>>, <<H, h>>)
        imgWidth  == RMul(Rat(w), ratio)
        imgHeight == RMul(Rat(h), ratio)
        x         == RHalf(RSub(Rat(W), imgWidth))
        y         == RHalf(RSub(Rat(H), imgHeight))
    IN  [ratio |-> ratio, x |-> x, y |-> y, w |-> imgWidth, h |-> imgHeight]

\* The same computation in the loop of exportAllClassesPdf / the
\* all-teachers handler.
PlacementBatch(W, H, w, h) ==
    LET ratio     == RMin(<<W, w>>, <<H, h>>)
        imgWidth  == RMul(Rat(w), ratio)
        imgHeight == RMul(Rat(h), ratio)
        x         == RHalf(RSub(Rat(W), imgWidth))
        y         == RHalf(RSub(Rat(H), imgHeight))
    IN  [ratio |-> ratio, x |-> x, y |-> y, w |-> imgWidth, h |-> imgHeight]

NoPlace == [ratio |-> <<0, 1>>, x |-> <<0, 1>>, y |-> <<0, 1>>, w |-> <<0, 1>>, h |-> <<0, 1>>]

\* ------------------------------------------------------------------------
\* Strings are sequences of one-character strings
Str1(s) == <<s>>
LowerChar(ch) == IF ch = "A" THEN "a" ELSE IF ch = "B" THEN "b" ELSE ch
ToLowerCase(s) == [i \in 1..Len(s) |-> LowerChar(s[i])]
IsSpace(ch) == ch = " "

RECURSIVE TrimStart(_)
TrimStart(s) == IF s # <<>> /\ IsSpace(Head(s)) THEN TrimStart(Tail(s)) ELSE s
RECURSIVE TrimEnd(_)
TrimEnd(s) == IF s # <<>> /\ IsSpace(s[Len(s)]) THEN TrimEnd(SubSeq(s, 1, Len(s) - 1)) ELSE s
Trim(s) == TrimEnd(TrimStart(s))

\* String.prototype.includes
Includes(h, q) ==
    \E i \in 0..(Len(h) - Len(q)) : SubSeq(h, i + 1, i + Len(q)) = q

\* filenameBase.replace(/\s+/g, "_"): every maximal run of whitespace becomes one "_"
RECURSIVE SafeName(_)
SafeName(s) ==
    IF s = <<>> THEN <<>>
    ELSE IF IsSpace(Head(s))
         THEN <<"_">> \o SafeName(TrimStart(s))
         ELSE <<Head(s)>> \o SafeName(Tail(s))

\* ------------------------------------------------------------------------
\* The document: cards, their attributes and the capture regions
Digit == <<"1", "2", "3", "4", "5", "6">>
Slots == 1..MaxCalls
CardTypes == [name : BOOLEAN, wrapper : BOOLEAN]
CardLists == UNION {[1..n -> CardTypes] : n \in 0..MaxCards}

\* value of data-class-name / data-teacher-name of the i-th card
NameAttr(i) == <<"R", " ", Digit[i]>>
\* canvas html2canvas returns for the wrapper of the i-th card, at scale 2
CanvasWidth(i)  == 2 * i
CanvasHeight(i) == 2

\* pdf.internal.pageSize of new jsPDF("l", "pt", "a4"), in 1/100 pt
PageWidth  == 84189
PageHeight == 59528

\* document.querySelectorAll(".tt-<k>-card")
QueryCards(k) == IF kind = k THEN cards ELSE <<>>
\* document.getElementById(`<k>-card-${id}`): the card's index, 0 when absent
CardById(k, id) == IF kind = k /\ id \in 1..Len(cards) THEN id ELSE 0

Chars(k) == IF k = "class" THEN <<"c", "l", "a", "s", "s">>
            ELSE <<"t", "e", "a", "c", "h", "e", "r">>
TimetableDash == <<"t", "i", "m", "e", "t", "a", "b", "l", "e", "-">>

\* card.getAttribute("data-..-name") || `<k>-${id}` in exportClass / exportTeacher
SingleName(k, id) ==
    IF cards[id].name THEN NameAttr(id) ELSE Chars(k) \o <<"-">> \o Str1(Digit[id])
\* the caption read once, from the first card, outside the loop
BatchNameStale(k, cs, i) == IF cs[1].name THEN NameAttr(1) ELSE Chars(k)

\* card.getAttribute("data-..-name") || "<k>" in the batch loops
BatchName(k, cs, i) == IF cs[i].name THEN NameAttr(i) ELSE Chars(k)

\* ------------------------------------------------------------------------
\* Status toast
TimeUnit == 250
T250  == 1     \* 250 ms highlight
T3500 == 14    \* default timeout of showStatus
T5000 == 20
T7000 == 28
T8000 == 32

Msg(text, file, type) == [text |-> text, file |-> file, type |-> type]

\* showStatus(message, type, timeout) applied to S = [el, timers]
ShowStatus(S, m, timeout) ==
    IF ~S.el.present THEN S
    ELSE [el |-> [present |-> TRUE, text |-> [text |-> m.text, file |-> m.file],
                  type |-> m.type, visible |-> TRUE,
                  shownAt |-> now, timeout |-> timeout],
          timers |-> IF timeout # 0
                     THEN S.timers \cup {[due |-> now + timeout, act |-> "hide", el |-> 0]}
                     ELSE S.timers]

S0 == [el |-> statusEl, timers |-> timers]

\* ------------------------------------------------------------------------
\* jsPDF: a document is a sequence of pages, a page the sequence of things
\* drawn on it; "by" records the call that drew the item.
BlankPage == <<>>
NewPdf == <<BlankPage>>                 \* new jsPDF(...) starts with one page
AddPage(doc) == Append(doc, BlankPage)
Draw(doc, item) == [doc EXCEPT ![Len(doc)] = Append(@, item)]
AddImage(doc, c, card, place) ==
    Draw(doc, [op |-> "image", card |-> card, place |-> place, text |-> <<>>, by |-> c])
Text(doc, c, s) ==
    Draw(doc, [op |-> "text", card |-> 0, place |-> NoPlace, text |-> s, by |-> c])

File(name, type, pages, img) == [name |-> name, type |-> type, pages |-> pages, img |-> img]

\* one jsPDF object shared by all calls
PdfShared(c) == 1

\* the jsPDF object the const `pdf` of call c refers to
PdfOf(c) == c

\* ------------------------------------------------------------------------
\* Calls
IdleCall == [pc |-> "idle", op |-> "none", format |-> "", el |-> 0, base |-> <<>>,
             cards |-> <<>>, i |-> 0, first |-> TRUE, shown |-> <<>>, saved |-> <<>>,
             error |-> ""]

HasLibs == hasHtml2Canvas /\ hasJsPdf
FreeSlot(c) == calls[c].pc = "idle" /\ \A d \in 1..(c - 1) : calls[d].pc # "idle"

\* a collection that is never taken to be empty
NoCardsNever(cs) == FALSE

\* !cards.length
NoCards(cs) == Len(cs) = 0

\* index of the first card after position i that has a table wrapper, 0 if none
NextWrapper(cs, i) ==
    IF \E j \in (i + 1)..Len(cs) : cs[j].wrapper
    THEN CHOOSE j \in (i + 1)..Len(cs) :
             cs[j].wrapper /\ \A l \in (i + 1)..(j - 1) : ~cs[l].wrapper
    ELSE 0

AllFileName(k) == TimetableDash \o <<"a", "l", "l", "-">> \o
                  (IF k = "class" THEN <<"c", "l", "a", "s", "s", "e", "s">>
                   ELSE <<"t", "e", "a", "c", "h", "e", "r", "s">>) \o <<".", "p", "d", "f">>

\* The for-loop of the batch export from the card after position `from`, up to
\* the next await or to pdf.save: S is the toast state so far, rec the call
\* record so far, doc the call's document so far.
BatchContinue(c, k, S, rec, doc, from) ==
    LET j == NextWrapper(rec.cards, from) IN
    IF j # 0
    THEN /\ calls' = [calls EXCEPT ![c] = [rec EXCEPT !.pc = "await", !.i = j]]
         /\ statusEl' = S.el
         /\ timers' = S.timers
    ELSE LET m  == Msg("Downloaded", AllFileName(k), "success")
             S2 == ShowStatus(S, m, T5000)
         IN /\ calls' = [calls EXCEPT ![c] =
                           [rec EXCEPT !.pc = "fulfilled", !.i = 0,
                                       !.saved = <<File(AllFileName(k), "pdf", doc, 0)>>,
                                       !.shown = Append(@, m)]]
            /\ statusEl' = S2.el
            /\ timers' = S2.timers

\* ------------------------------------------------------------------------
\* Batch exports
KindOf(op) == IF op \in {"allClasses", "class"} THEN "class" ELSE "teacher"

\* exportAllClassesPdf up to its first await (click on #btn-export-all-pdf)
ClickAllClasses(c) ==
    /\ FreeSlot(c)
    /\ LET cs  == QueryCards("class")
           rec == [IdleCall EXCEPT !.op = "allClasses"]
       IN  IF ~HasLibs
           THEN LET m == Msg("Export libraries not loaded.", <<>>, "error")
                    S == ShowStatus(S0, m, T3500)
                IN /\ calls' = [calls EXCEPT ![c] =
                                  [rec EXCEPT !.pc = "fulfilled", !.shown = <<m>>]]
                   /\ statusEl' = S.el /\ timers' = S.timers /\ docs' = docs
           ELSE IF NoCards(cs)
           THEN LET m == Msg("No class timetables to export.", <<>>, "error")
                    S == ShowStatus(S0, m, T3500)
                IN /\ calls' = [calls EXCEPT ![c] =
                                  [rec EXCEPT !.pc = "fulfilled", !.shown = <<m>>]]
                   /\ statusEl' = S.el /\ timers' = S.timers /\ docs' = docs
           ELSE LET m == Msg("Preparing all class timetables as PDF", <<>>, "success")
                    S == ShowStatus(S0, m, T7000)
                IN /\ docs' = [docs EXCEPT ![PdfOf(c)] = NewPdf]
                   /\ BatchContinue(c, "class", S,
                                    [rec EXCEPT !.cards = cs, !.first = TRUE, !.shown = <<m>>],
                                    NewPdf, 0)
    /\ UNCHANGED <<hasHtml2Canvas, hasJsPdf, now, kind, cards, boxShadow, query, haystack,
                   display, pageW, pageH, canvasW, canvasH, placedS, placedB>>

\* click on #btn-export-all-teachers-pdf: the listener exists only when both
\* libraries were present at load
ClickAllTeachers(c) ==
    /\ FreeSlot(c)
    /\ LET cs  == QueryCards("teacher")
           rec == [IdleCall EXCEPT !.op = "allTeachers"]
       IN  IF ~HasLibs
           THEN /\ calls' = [calls EXCEPT ![c] = [rec EXCEPT !.pc = "unbound"]]
                /\ UNCHANGED <<statusEl, timers, docs>>
           ELSE IF NoCards(cs)
           THEN LET m == Msg("No teachers to export.", <<>>, "error")
                    S == ShowStatus(S0, m, T3500)
                IN /\ calls' = [calls EXCEPT ![c] =
                                  [rec EXCEPT !.pc = "fulfilled", !.shown = <<m>>]]
                   /\ statusEl' = S.el /\ timers' = S.timers /\ docs' = docs
           ELSE LET m == Msg("Preparing all teacher timetables as PDF", <<>>, "success")
                    S == ShowStatus(S0, m, T7000)
                IN /\ docs' = [docs EXCEPT ![PdfOf(c)] = NewPdf]
                   /\ BatchContinue(c, "teacher", S,
                                    [rec EXCEPT !.cards = cs, !.first = TRUE, !.shown = <<m>>],
                                    NewPdf, 0)
    /\ UNCHANGED <<hasHtml2Canvas, hasJsPdf, now, kind, cards, boxShadow, query, haystack,
                   display, pageW, pageH, canvasW, canvasH, placedS, placedB>>

IsBatch(c) == calls[c].op \in {"allClasses", "allTeachers"}

\* html2canvas resolves for the card a batch call awaits; the loop body runs
\* and the loop goes on to the next await or to the save.  fail names the
\* statement of the body that throws, if any.
BatchResolve(c, fail) ==
    /\ IsBatch(c) /\ calls[c].pc = "await"
    /\ LET rec   == calls[c]
           k     == KindOf(rec.op)
           i     == rec.i
           name  == BatchName(k, rec.cards, i)
           place == PlacementBatch(PageWidth, PageHeight, CanvasWidth(i), CanvasHeight(i))
           doc0  == docs[PdfOf(c)]
           doc1  == IF rec.first THEN doc0 ELSE AddPage(doc0)
           doc2  == Text(AddImage(doc1, c, i, place), c, name)
       IN  CASE fail = "toDataURL" ->
                  /\ calls' = [calls EXCEPT ![c] =
                                 [rec EXCEPT !.pc = "rejected", !.error = fail]]
                  /\ UNCHANGED <<docs, statusEl, timers>>
             [] fail = "addImage" ->
                  /\ calls' = [calls EXCEPT ![c] =
                                 [rec EXCEPT !.pc = "rejected", !.first = FALSE,
                                             !.error = fail]]
                  /\ docs' = [docs EXCEPT ![PdfOf(c)] = doc1]
                  /\ UNCHANGED <<statusEl, timers>>
             [] OTHER ->
                  /\ docs' = [docs EXCEPT ![PdfOf(c)] = doc2]
                  /\ BatchContinue(c, k, S0, [rec EXCEPT !.first = FALSE], doc2, i)
    /\ UNCHANGED <<hasHtml2Canvas, hasJsPdf, now, kind, cards, boxShadow, query, haystack,
                   display, pageW, pageH, canvasW, canvasH, placedS, placedB>>

\* a batch loop wrapped in try/finally: the document built so far is saved
\* although html2canvas rejected
BatchRejectSaving(c) ==
    /\ IsBatch(c) /\ calls[c].pc = "await"
    /\ LET k == KindOf(calls[c].op)
           m == Msg("Downloaded", AllFileName(k), "success")
           S == ShowStatus(S0, m, T5000)
       IN /\ calls' = [calls EXCEPT ![c] =
                         [@ EXCEPT !.pc = "rejected", !.error = "html2canvas",
                                   !.saved = <<File(AllFileName(k), "pdf", docs[PdfOf(c)], 0)>>,
                                   !.shown = Append(@, m)]]
          /\ statusEl' = S.el /\ timers' = S.timers
    /\ UNCHANGED <<hasHtml2Canvas, hasJsPdf, now, kind, cards, boxShadow,
                   docs, query, haystack, display,
                   pageW, pageH, canvasW, canvasH, placedS, placedB>>

\* html2canvas rejects for the card a batch call awaits: nothing catches it
BatchReject(c) ==
    /\ IsBatch(c) /\ calls[c].pc = "await"
    /\ calls' = [calls EXCEPT ![c] = [@ EXCEPT !.pc = "rejected", !.error = "html2canvas"]]
    /\ UNCHANGED <<hasHtml2Canvas, hasJsPdf, statusEl, timers, now, kind, cards, boxShadow,
                   docs, query, haystack, display,
                   pageW, pageH, canvasW, canvasH, placedS, placedB>>

Fails == {"none", "toDataURL", "addImage"}

\* ------------------------------------------------------------------------
\* Single-card exports
Formats == {"png", "pdf", "svg"}
Ext(format) == IF format = "png" THEN <<".", "p", "n", "g">> ELSE <<".", "p", "d", "f">>
InTeachersJs(op) == op = "teacher"

\* exportElementAs (app.js) / exportElement (teachers.js) up to the await:
\* el is the index of the card whose wrapper was found, 0 for a null element
ExportElementStart(c, rec, format, el, filenameBase) ==
    IF ~HasLibs
    THEN LET m == Msg(IF InTeachersJs(rec.op)
                      THEN "Export libraries not loaded (check CDN / internet)."
                      ELSE "Export libraries not loaded.", <<>>, "error")
             S == ShowStatus(S0, m, T3500)
         IN /\ calls' = [calls EXCEPT ![c] = [rec EXCEPT !.pc = "fulfilled", !.shown = <<m>>]]
            /\ statusEl' = S.el /\ timers' = S.timers /\ boxShadow' = boxShadow
    ELSE IF el = 0
    THEN LET m == Msg(IF InTeachersJs(rec.op)
                      THEN "Nothing to export (element not found)."
                      ELSE "Timetable element not found.", <<>>, "error")
             S == ShowStatus(S0, m, T3500)
         IN /\ calls' = [calls EXCEPT ![c] = [rec EXCEPT !.pc = "fulfilled", !.shown = <<m>>]]
            /\ statusEl' = S.el /\ timers' = S.timers /\ boxShadow' = boxShadow
    ELSE /\ boxShadow' = boxShadow \cup {el}
         /\ timers' = timers \cup {[due |-> now + T250, act |-> "unring", el |-> el]}
         /\ calls' = [calls EXCEPT ![c] =
                        [rec EXCEPT !.pc = "await", !.format = format, !.el = el,
                                    !.base = filenameBase]]
         /\ statusEl' = statusEl

\* exportClass / exportTeacher: look the card up, then export its wrapper
ExportCard(c, op, id, format, prefix) ==
    LET k    == KindOf(op)
        card == CardById(k, id)
        rec  == [IdleCall EXCEPT !.op = op]
    IN  IF card = 0
        THEN LET m == Msg(IF k = "class" THEN "Class card not found."
                          ELSE "Teacher card not found.", <<>>, "error")
                 S == ShowStatus(S0, m, T3500)
             IN /\ calls' = [calls EXCEPT ![c] =
                               [rec EXCEPT !.pc = "fulfilled", !.shown = <<m>>]]
                /\ statusEl' = S.el /\ timers' = S.timers /\ boxShadow' = boxShadow
        ELSE ExportElementStart(c, rec, format,
                                IF cards[card].wrapper THEN card ELSE 0,
                                prefix \o SingleName(k, card))

Ids == 1..(MaxCards + 1)

\* click on a [data-export][data-class-id] button (app.js)
ClickExportClass(c, cid, format) ==
    /\ FreeSlot(c)
    /\ ExportCard(c, "class", cid, format, TimetableDash)
    /\ UNCHANGED <<hasHtml2Canvas, hasJsPdf, now, kind, cards, docs, query, haystack,
                   display, pageW, pageH, canvasW, canvasH, placedS, placedB>>

\* click on a [data-export-teacher][data-teacher-id] button, listener of app.js
ClickExportTeacherApp(c, tid, format) ==
    /\ FreeSlot(c)
    /\ ExportCard(c, "teacherApp", tid, format, Chars("teacher") \o <<"-">>)
    /\ UNCHANGED <<hasHtml2Canvas, hasJsPdf, now, kind, cards, docs, query, haystack,
                   display, pageW, pageH, canvasW, canvasH, placedS, placedB>>

\* the same click, listener of teachers.js
ClickExportTeacher(c, tid, format) ==
    /\ FreeSlot(c)
    /\ ExportCard(c, "teacher", tid, format, TimetableDash)
    /\ UNCHANGED <<hasHtml2Canvas, hasJsPdf, now, kind, cards, docs, query, haystack,
                   display, pageW, pageH, canvasW, canvasH, placedS, placedB>>

ExportErrorMsg(op) ==
    Msg(IF InTeachersJs(op) THEN "Error while exporting (see console)."
        ELSE "Error during export (check console).", <<>>, "error")

\* html2canvas resolves for a single-card export; the try block runs to its
\* end.  thrown: a statement of the block throws and the catch reports it.
SingleResolve(c, thrown) ==
    /\ ~IsBatch(c) /\ calls[c].pc = "await"
    /\ LET rec      == calls[c]
           safeName == SafeName(rec.base)
           place    == PlacementSingle(PageWidth, PageHeight,
                                       CanvasWidth(rec.el), CanvasHeight(rec.el))
           pdf      == AddImage(NewPdf, c, rec.el, place)
           fname    == safeName \o Ext(rec.format)
           m        == IF thrown THEN ExportErrorMsg(rec.op)
                       ELSE Msg("Downloaded", fname, "success")
           S        == ShowStatus(S0, m, T3500)
       IN  IF thrown
           THEN /\ calls' = [calls EXCEPT ![c] =
                               [rec EXCEPT !.pc = "fulfilled", !.shown = <<m>>,
                                           !.error = "try"]]
                /\ statusEl' = S.el /\ timers' = S.timers /\ docs' = docs
           ELSE IF rec.format = "png"
           THEN /\ calls' = [calls EXCEPT ![c] =
                               [rec EXCEPT !.pc = "fulfilled", !.shown = <<m>>,
                                           !.saved = <<File(fname, "png", <<>>, rec.el)>>]]
                /\ statusEl' = S.el /\ timers' = S.timers /\ docs' = docs
           ELSE IF rec.format = "pdf"
           THEN /\ calls' = [calls EXCEPT ![c] =
                               [rec EXCEPT !.pc = "fulfilled", !.shown = <<m>>,
                                           !.saved = <<File(fname, "pdf", pdf, 0)>>]]
                /\ statusEl' = S.el /\ timers' = S.timers
                /\ docs' = [docs EXCEPT ![PdfOf(c)] = pdf]
           ELSE /\ calls' = [calls EXCEPT ![c] = [rec EXCEPT !.pc = "fulfilled"]]
                /\ UNCHANGED <<statusEl, timers, docs>>
    /\ UNCHANGED <<hasHtml2Canvas, hasJsPdf, now, kind, cards, boxShadow, query, haystack,
                   display, pageW, pageH, canvasW, canvasH, placedS, placedB>>

\* html2canvas rejects for a single-card export: the catch reports it
SingleReject(c) ==
    /\ ~IsBatch(c) /\ calls[c].pc = "await"
    /\ LET m == ExportErrorMsg(calls[c].op)
           S == ShowStatus(S0, m, T3500)
       IN /\ calls' = [calls EXCEPT ![c] = [@ EXCEPT !.pc = "fulfilled", !.shown = <<m>>,
                                                 !.error = "html2canvas"]]
          /\ statusEl' = S.el /\ timers' = S.timers
    /\ UNCHANGED <<hasHtml2Canvas, hasJsPdf, now, kind, cards, boxShadow, docs, query,
                   haystack, display, pageW, pageH, canvasW, canvasH, placedS, placedB>>

\* ------------------------------------------------------------------------
\* Timers
\* a setTimeout callback whose delay has elapsed runs
TimerFire(t) ==
    /\ t \in timers /\ t.due <= now
    /\ timers' = timers \ {t}
    /\ IF t.act = "hide"
       THEN /\ statusEl' = [statusEl EXCEPT !.visible = FALSE]
            /\ boxShadow' = boxShadow
       ELSE /\ boxShadow' = boxShadow \ {t.el}
            /\ statusEl' = statusEl
    /\ UNCHANGED <<hasHtml2Canvas, hasJsPdf, now, kind, cards, calls, docs, query, haystack,
                   display, pageW, pageH, canvasW, canvasH, placedS, placedB>>

\* time passes; a due callback runs before the clock moves on
Tick ==
    /\ now < MaxTime
    /\ \A t \in timers : t.due > now
    /\ now' = now + 1
    /\ UNCHANGED <<hasHtml2Canvas, hasJsPdf, statusEl, timers, kind, cards, boxShadow, calls,
                   docs, query, haystack, display,
                   pageW, pageH, canvasW, canvasH, placedS, placedB>>

\* ------------------------------------------------------------------------
\* Teacher search filter
Alphabet == {"a", "A", " "}
Strings(n) == UNION {[1..l -> Alphabet] : l \in 0..n}

\* the filter without the lowercasing of the query
ShownCaseSensitive(value, attr) ==
    LET q == Trim(value)
        h == ToLowerCase(attr)
    IN  q = <<>> \/ Includes(h, q)

\* whether the input handler shows a card with the given data-teacher-search
\* value for the given value of the search field
Shown(value, attr) ==
    LET q == ToLowerCase(Trim(value))
        h == ToLowerCase(attr)
    IN  q = <<>> \/ Includes(h, q)

\* "input" event on #teacher-search with the field holding value
SearchInput(value) ==
    /\ query' = value
    /\ display' = [i \in DOMAIN display |->
                     IF kind = "teacher"
                     THEN (IF Shown(value, haystack[i]) THEN "" ELSE "none")
                     ELSE display[i]]
    /\ UNCHANGED <<hasHtml2Canvas, hasJsPdf, statusEl, timers, now, kind, cards, boxShadow,
                   calls, docs, haystack, pageW, pageH, canvasW, canvasH, placedS, placedB>>

\* ------------------------------------------------------------------------
\* Placement applied to the inputs
PlaceSingle ==
    /\ placedS = <<>>
    /\ placedS' = <<PlacementSingle(pageW, pageH, canvasW, canvasH)>>
    /\ UNCHANGED <<hasHtml2Canvas, hasJsPdf, statusEl, timers, now, kind, cards, boxShadow,
                   calls, docs, query, haystack, display,
                   pageW, pageH, canvasW, canvasH, placedB>>

PlaceBatch ==
    /\ placedB = <<>>
    /\ placedB' = <<PlacementBatch(pageW, pageH, canvasW, canvasH)>>
    /\ UNCHANGED <<hasHtml2Canvas, hasJsPdf, statusEl, timers, now, kind, cards, boxShadow,
                   calls, docs, query, haystack, display,
                   pageW, pageH, canvasW, canvasH, placedS>>

\* ------------------------------------------------------------------------
\* Initial states
StatusEl0(present) ==
    [present |-> present, text |-> [text |-> "", file |-> <<>>], type |-> "none",
     visible |-> FALSE, shownAt |-> 0, timeout |-> 0]

\* the toast after DOMContentLoaded: app.js reports missing libraries
Startup(present, libs) ==
    IF libs THEN [el |-> StatusEl0(present), timers |-> {}]
    ELSE ShowStatus([el |-> StatusEl0(present), timers |-> {}],
                    Msg("Export libraries not loaded (html2canvas/jsPDF). PNG/PDF export disabled.",
                        <<>>, "error"), T8000)

InitDom(present, cs, hs) ==
    /\ now = 0
    /\ statusEl = Startup(present, HasLibs).el
    /\ timers = Startup(present, HasLibs).timers
    /\ cards = cs
    /\ boxShadow = {}
    /\ calls = [c \in Slots |-> IdleCall]
    /\ docs = [c \in Slots |-> <<>>]
    /\ query = <<>>
    /\ haystack = hs
    /\ display = [i \in 1..Len(cs) |-> ""]

InitPlaceIdle ==
    /\ pageW = PageWidth /\ pageH = PageHeight
    /\ canvasW = 2 /\ canvasH = 2
    /\ placedS = <<>> /\ placedB = <<>>

Init ==
    /\ hasHtml2Canvas \in BOOLEAN /\ hasJsPdf \in BOOLEAN
    /\ kind \in {"class", "teacher"}
    /\ \E present \in BOOLEAN, cs \in CardLists :
          InitDom(present, cs, [i \in 1..Len(cs) |-> <<>>])
    /\ InitPlaceIdle

NextBatch ==
    \/ \E c \in Slots : ClickAllClasses(c)
    \/ \E c \in Slots : ClickAllTeachers(c)
    \/ \E c \in Slots, fail \in Fails : BatchResolve(c, fail)
    \/ \E c \in Slots : BatchReject(c)

NextSingle ==
    \/ \E c \in Slots, id \in Ids, f \in Formats : ClickExportClass(c, id, f)
    \/ \E c \in Slots, id \in Ids, f \in Formats : ClickExportTeacherApp(c, id, f)
    \/ \E c \in Slots, id \in Ids, f \in Formats : ClickExportTeacher(c, id, f)
    \/ \E c \in Slots, thrown \in BOOLEAN : SingleResolve(c, thrown)
    \/ \E c \in Slots : SingleReject(c)

Next == NextBatch \/ NextSingle

\* every export handler of both scripts
Spec == Init /\ [][Next]_vars

\* the two batch exports only
SpecBatch == Init /\ [][NextBatch]_vars

\* one click on any export button, with the clock and the timers running
InitStatus ==
    /\ hasHtml2Canvas \in BOOLEAN /\ hasJsPdf \in BOOLEAN
    /\ kind \in {"class", "teacher"}
    /\ \E cs \in {l \in CardLists : \A i \in 1..Len(l) : l[i].name} :
          InitDom(TRUE, cs, [i \in 1..Len(cs) |-> <<>>])
    /\ InitPlaceIdle

NextStatus ==
    \/ ClickAllClasses(1)
    \/ ClickAllTeachers(1)
    \/ \E fail \in Fails : BatchResolve(1, fail)
    \/ BatchReject(1)
    \/ \E id \in Ids, f \in Formats : ClickExportClass(1, id, f)
    \/ \E id \in Ids, f \in Formats : ClickExportTeacherApp(1, id, f)
    \/ \E id \in Ids, f \in Formats : ClickExportTeacher(1, id, f)
    \/ \E thrown \in BOOLEAN : SingleResolve(1, thrown)
    \/ SingleReject(1)
    \/ Tick
    \/ \E t \in timers : TimerFire(t)

SpecStatus == InitStatus /\ [][NextStatus]_vars

\* the search field of the teachers page, two teacher cards
InitSearch ==
    /\ hasHtml2Canvas = TRUE /\ hasJsPdf = TRUE
    /\ kind = "teacher"
    /\ \E hs \in [1..2 -> Strings(MaxQuery)] :
          InitDom(TRUE, [i \in 1..2 |-> [name |-> TRUE, wrapper |-> TRUE]], hs)
    /\ InitPlaceIdle

NextSearch == \E value \in Strings(MaxQuery) : SearchInput(value)

SpecSearch == InitSearch /\ [][NextSearch]_vars

\* the placement computation on arbitrary page and canvas sizes
InitPlace ==
    /\ hasHtml2Canvas = TRUE /\ hasJsPdf = TRUE
    /\ kind = "class"
    /\ InitDom(TRUE, <<>>, <<>>)
    /\ pageW \in 1..MaxDim /\ pageH \in 1..MaxDim
    /\ canvasW \in 1..MaxDim /\ canvasH \in 1..MaxDim
    /\ placedS = <<>> /\ placedB = <<>>

NextPlace == PlaceSingle \/ PlaceBatch

SpecPlace == InitPlace /\ [][NextPlace]_vars

\* ------------------------------------------------------------------------
\* Properties
Last(q) == q[Len(q)]
\* indices of the cards that have a table wrapper, in list order
WrapperIdx(cs) == SelectSeq([i \in 1..Len(cs) |-> i], LAMBDA i : cs[i].wrapper)
ImageCards(page) ==
    LET imgs == SelectSeq(page, LAMBDA it : it.op = "image")
    IN  [n \in 1..Len(imgs) |-> imgs[n].card]
Captions(page) ==
    LET txts == SelectSeq(page, LAMBDA it : it.op = "text")
    IN  [n \in 1..Len(txts) |-> txts[n].text]
RECURSIVE AllImageCards(_)
AllImageCards(doc) ==
    IF doc = <<>> THEN <<>> ELSE ImageCards(Head(doc)) \o AllImageCards(Tail(doc))
Writers(doc) == UNION {{doc[n][m].by : m \in 1..Len(doc[n])} : n \in 1..Len(doc)}
ExpectedCaption(op, cs, i) ==
    IF cs[i].name THEN NameAttr(i)
    ELSE IF op = "allClasses" THEN <<"c", "l", "a", "s", "s">>
    ELSE <<"t", "e", "a", "c", "h", "e", "r">>
SavedBatch(c) == IsBatch(c) /\ calls[c].saved # <<>>
Ran(c) == calls[c].pc \notin {"idle", "unbound"}
ShowedDownloaded(c) ==
    \E n \in 1..Len(calls[c].shown) : calls[c].shown[n].text = "Downloaded"

\* C1: a batch export that reaches the save step saves a document with exactly
\* as many pages as the list has cards with a table wrapper, zero included.
C1_PageCountEqualsRegions ==
    \A c \in Slots :
        SavedBatch(c) =>
            Len(calls[c].saved[1].pages) = Len(WrapperIdx(calls[c].cards))

\* C2: in a saved batch document the k-th page holds the image of the k-th
\* card with a table wrapper (in list order) and, as its only caption, that
\* card's display name or the fallback name; no other page holds an image or
\* a caption.
C2_PageOrder ==
    \A c \in Slots :
        SavedBatch(c) =>
            LET pages == calls[c].saved[1].pages
                cs    == calls[c].cards
                W     == WrapperIdx(cs)
            IN  /\ \A k \in 1..Len(W) :
                      /\ k <= Len(pages)
                      /\ ImageCards(pages[k]) = <<W[k]>>
                      /\ Captions(pages[k]) = <<ExpectedCaption(calls[c].op, cs, W[k])>>
                /\ \A k \in (Len(W) + 1)..Len(pages) :
                      ImageCards(pages[k]) = <<>> /\ Captions(pages[k]) = <<>>

\* a saved batch of three cards: the middle one has no wrapper and is skipped,
\* the last one has no name attribute and gets the fallback caption
C2_Witness ==
    \E c \in Slots :
        /\ SavedBatch(c)
        /\ Len(calls[c].cards) = 3
        /\ WrapperIdx(calls[c].cards) = <<1, 3>>
        /\ ~calls[c].cards[3].name
        /\ Len(calls[c].saved[1].pages) = 2

\* C3: a batch export in which html2canvas or the page assembly threw never
\* saves a document and never shows the "Downloaded" status.
C3_ThrowSavesNothing ==
    \A c \in Slots :
        (IsBatch(c) /\ calls[c].error # "") =>
            /\ calls[c].saved = <<>>
            /\ ~ShowedDownloaded(c)

\* the second card of a batch threw after the first card's page was drawn
C3_Witness ==
    \E c \in Slots :
        /\ IsBatch(c) /\ calls[c].error # ""
        /\ calls[c].i > 1
        /\ Len(AllImageCards(docs[c])) >= 1

\* C4: with the toast element present, every export call that has ended has
\* ended normally (no exception left the call) and the last thing it did to
\* the toast was to show a success or an error message.
C4_EveryExportEndsWithStatus ==
    statusEl.present =>
        \A c \in Slots :
            calls[c].pc \in {"fulfilled", "rejected"} =>
                /\ calls[c].pc = "fulfilled"
                /\ calls[c].shown # <<>>
                /\ (calls[c].error # "" => Last(calls[c].shown).type = "error")
                /\ Last(calls[c].shown).type \in {"success", "error"}

\* C5: when a library is missing, every click on an export button reports an
\* error and downloads nothing.
C5_MissingLibsReportError ==
    (~HasLibs /\ statusEl.present) =>
        \A c \in Slots :
            calls[c].pc # "idle" =>
                /\ calls[c].shown # <<>>
                /\ Last(calls[c].shown).type = "error"
                /\ calls[c].saved = <<>>

\* C6: a batch export that runs on an empty card collection reports an error,
\* creates no document and saves nothing.
C6_EmptyBatchIsError ==
    \A c \in Slots :
        (IsBatch(c) /\ Ran(c) /\ QueryCards(KindOf(calls[c].op)) = <<>>) =>
            /\ calls[c].pc = "fulfilled"
            /\ Len(calls[c].shown) = 1
            /\ calls[c].shown[1].type = "error"
            /\ calls[c].saved = <<>>
            /\ docs[c] = <<>>

\* both libraries present, no card of the kind: the "nothing to export" error
C6_Witness ==
    \E c \in Slots :
        /\ IsBatch(c) /\ Ran(c) /\ HasLibs
        /\ QueryCards(KindOf(calls[c].op)) = <<>>
        /\ calls[c].shown # <<>>
        /\ calls[c].shown[1].text \in {"No class timetables to export.",
                                       "No teachers to export."}

PlacementOk(p) ==
    /\ RLe(p.ratio, <<pageW, canvasW>>)
    /\ RLe(p.ratio, <<pageH, canvasH>>)
    /\ (REq(p.ratio, <<pageW, canvasW>>) \/ REq(p.ratio, <<pageH, canvasH>>))
    /\ REq(p.w, RMul(Rat(canvasW), p.ratio))
    /\ REq(p.h, RMul(Rat(canvasH), p.ratio))
    /\ RLe(Rat(0), p.x) /\ RLe(RAdd(p.x, p.w), Rat(pageW))
    /\ RLe(Rat(0), p.y) /\ RLe(RAdd(p.y, p.h), Rat(pageH))
    /\ REq(p.x, RSub(Rat(pageW), RAdd(p.x, p.w)))
    /\ REq(p.y, RSub(Rat(pageH), RAdd(p.y, p.h)))
SamePlacement(p, q) ==
    /\ REq(p.ratio, q.ratio)
    /\ REq(p.x, q.x) /\ REq(p.y, q.y) /\ REq(p.w, q.w) /\ REq(p.h, q.h)

C8_VisibleIffContainsQuery ==
    \A i \in DOMAIN display :
        (display[i] = "") <=>
            (query = <<>> \/ Includes(ToLowerCase(haystack[i]), ToLowerCase(query)))

\* C8 amended: after every input event a teacher card is visible exactly when
\* its lowercased haystack contains the query with its leading and trailing
\* whitespace removed and lowercased (every card when that is empty).
C8_VisibleIffContainsTrimmedQuery ==
    \A i \in DOMAIN display :
        (display[i] = "") <=>
            LET q == TrimStart(TrimEnd(ToLowerCase(query)))
            IN  q = <<>> \/ Includes(ToLowerCase(haystack[i]), q)

\* a query with surrounding whitespace and an uppercase letter that shows one
\* card and hides the other
C8_Witness ==
    /\ query # Trim(query) /\ Trim(query) # <<>>
    /\ query # ToLowerCase(query)
    /\ \E i, j \in DOMAIN display : display[i] = "" /\ display[j] = "none"

\* C9: a message shown with a non-zero timeout stays visible until its own
\* timeout has elapsed, whatever timers earlier messages left pending.
C9_MessageStaysForItsDuration ==
    (statusEl.present /\ statusEl.timeout # 0
        /\ now < statusEl.shownAt + statusEl.timeout) => statusEl.visible

\* C10: whatever the interleaving of the batch calls, the items in a call's
\* saved document were all drawn by that call and its images are those of its
\* own cards with a wrapper, in order; and while a call awaits the capture of
\* a card, its document holds exactly the pages of the cards before it.
C10_OwnDocumentOnly ==
    \A c \in Slots :
        IsBatch(c) =>
            /\ calls[c].saved # <<>> =>
                  /\ Writers(calls[c].saved[1].pages) \subseteq {c}
                  /\ AllImageCards(calls[c].saved[1].pages) = WrapperIdx(calls[c].cards)
            /\ calls[c].pc = "await" =>
                  /\ Writers(docs[c]) \subseteq {c}
                  /\ AllImageCards(docs[c]) =
                        SelectSeq(WrapperIdx(calls[c].cards), LAMBDA j : j < calls[c].i)

\* the second call has saved its two or more pages while the first call,
\* started before it, still awaits a capture with a page already drawn
C10_Witness ==
    /\ IsBatch(1) /\ calls[1].pc = "await"
    /\ Len(AllImageCards(docs[1])) >= 1
    /\ SavedBatch(2)
    /\ Len(AllImageCards(calls[2].saved[1].pages)) >= 2

====
